---- MODULE Spec2Model ----
(***************************************************************************)
(* A model of travertino's box geometry (layout.py), intrinsic sizes       *)
(* (size.py) and style declaration framework (declaration.py).             *)
(*                                                                         *)
(* Box geometry: every node of a tree may own a BaseBox.  Writes to a      *)
(* box's content offsets or origin push absolute origins to the boxes of   *)
(* the node's children.                                                    *)
(*                                                                         *)
(* Intrinsic sizes (size.py): a BaseIntrinsicSize reports every change of  *)
(* its width, height or ratio to its layout through dirty().               *)
(*                                                                         *)
(* Style declarations: a class registers validated properties and          *)
(* directional composites; an instance stores the values that were set     *)
(* explicitly and reports every effective change through apply().          *)
(***************************************************************************)
EXTENDS Integers, Sequences, FiniteSets, TLC

VARIABLES
    children,   \* node -> sequence of child nodes (node.children)
    layout,     \* node -> its BaseBox; a node outside the domain has no box
    writes,     \* the origin writes of the last box operation, in order
    boxOp,      \* the last box operation
    late,       \* boxes constructed under a parent whose content box was not at (0,0)
    PROPERTIES,     \* BaseStyle._PROPERTIES: class -> set of names
    ALL_PROPERTIES, \* BaseStyle._ALL_PROPERTIES: class -> set of names
    accessors,      \* class -> name -> the property installed on the class
    style,      \* instance -> [class, attrs]; attrs holds the stored values
    applied,    \* the apply() calls of the last style operation, in order
    styleOp,    \* the last style operation and how it ended
    prev,       \* style, before the last style operation
    intrinsic,  \* the BaseIntrinsicSize: _width, _height, _ratio, _layout
    dirty,      \* the layout.dirty() calls of the last size operation, in order
    sizeOp,     \* the last size operation
    call,       \* the arguments of a function call
    result      \* what the call returned or raised

boxVars == <<children, layout, writes, boxOp, late>>

classVars == <<PROPERTIES, ALL_PROPERTIES, accessors>>

styleVars == <<PROPERTIES, ALL_PROPERTIES, accessors, style, applied, styleOp, prev>>

sizeVars == <<intrinsic, dirty, sizeOp>>

callVars == <<call, result>>

vars == <<children, layout, writes, boxOp, late,
          PROPERTIES, ALL_PROPERTIES, accessors, style, applied, styleOp, prev,
          intrinsic, dirty, sizeOp, call, result>>

(***************************************************************************)
(* Bounds                                                                  *)
(***************************************************************************)
MaxOffsetSteps == 1
MaxOriginSteps == 1
MaxInt == 2        \* integers given to a property: 0..MaxInt
MaxTuple == 5      \* longest tuple given to a directional property
MaxChanges == 2    \* most keyword arguments of one update()

TopOffsets == {10 * i : i \in 0..MaxOffsetSteps}
LeftOffsets == {5 * i : i \in 0..MaxOffsetSteps}
Origins == {100 * i : i \in 0..MaxOriginSteps}
Dimensions == {0, 7}

Root == 1

(***************************************************************************)
(* BaseBox                                                                 *)
(***************************************************************************)
\* The fields _reset assigns.
FreshBox ==
    [visible |-> TRUE,
     content_width |-> 0, content_height |-> 0,
     content_top |-> 0, content_left |-> 0,
     content_bottom |-> 0, content_right |-> 0,
     origin_top |-> 0, origin_left |-> 0]

absolute_content_top(box) == box.origin_top + box.content_top

absolute_content_left(box) == box.origin_left + box.content_left

absolute_content_right(box) == box.origin_left + box.content_left + box.content_width

absolute_content_bottom(box) == box.origin_top + box.content_top + box.content_height

width(box) == box.content_left + box.content_width + box.content_right

height(box) == box.content_top + box.content_height + box.content_bottom

\* A box operation threads S = [lay |-> the boxes, log |-> the origin writes made].
Start == [lay |-> layout, log |-> <<>>]

RECURSIVE origin_top_set(_, _, _), origin_top_push(_, _, _)
RECURSIVE origin_left_set(_, _, _), origin_left_push(_, _, _)

\* A setter that stores the origin and leaves the children alone.
origin_top_set_local(S, n, value) ==
    [S EXCEPT !.lay[n].origin_top = value]

\* _origin_top.setter
origin_top_set(S, n, value) ==
    IF value # S.lay[n].origin_top
    THEN origin_top_push(
             [lay |-> [S.lay EXCEPT ![n].origin_top = value],
              log |-> Append(S.log, <<n, "top">>)], n, 1)
    ELSE S

\* A loop that takes the children from the last to the first.
origin_top_push_reversed(S, n, i) ==
    IF i > Len(children[n])
    THEN S
    ELSE LET child == children[n][Len(children[n]) + 1 - i]
         IN  origin_top_push(
                 IF child \in DOMAIN S.lay
                 THEN origin_top_set(S, child, absolute_content_top(S.lay[n]))
                 ELSE S,
                 n, i + 1)

\* for child in self.node.children: if child.layout: child.layout._origin_top = ...
origin_top_push(S, n, i) ==
    IF i > Len(children[n])
    THEN S
    ELSE LET child == children[n][i]
         IN  origin_top_push(
                 IF child \in DOMAIN S.lay
                 THEN origin_top_set(S, child, absolute_content_top(S.lay[n]))
                 ELSE S,
                 n, i + 1)

\* _origin_left.setter
origin_left_set(S, n, value) ==
    IF value # S.lay[n].origin_left
    THEN origin_left_push(
             [lay |-> [S.lay EXCEPT ![n].origin_left = value],
              log |-> Append(S.log, <<n, "left">>)], n, 1)
    ELSE S

origin_left_push(S, n, i) ==
    IF i > Len(children[n])
    THEN S
    ELSE LET child == children[n][i]
         IN  origin_left_push(
                 IF child \in DOMAIN S.lay
                 THEN origin_left_set(S, child, absolute_content_left(S.lay[n]))
                 ELSE S,
                 n, i + 1)

\* A setter that stores the offset without recomputing the children's origins.
content_top_set_stale(S, n, value) ==
    [S EXCEPT !.lay[n].content_top = value]

\* content_top.setter
content_top_set(S, n, value) ==
    origin_top_push([S EXCEPT !.lay[n].content_top = value], n, 1)

\* A setter that recomputes the children's origins only when the offset
\* changes.
content_left_set_on_change(S, n, value) ==
    IF value # S.lay[n].content_left
    THEN origin_left_push([S EXCEPT !.lay[n].content_left = value], n, 1)
    ELSE S

\* content_left.setter
content_left_set(S, n, value) ==
    origin_left_push([S EXCEPT !.lay[n].content_left = value], n, 1)

\* _reset: the fields are assigned directly, then the origin goes through the
\* two setters.
reset(S, n) ==
    LET S0 == [S EXCEPT !.lay = (n :> FreshBox) @@ S.lay]
    IN  origin_left_set(origin_top_set(S0, n, 0), n, 0)

\* BaseBox.__init__
new_box(S, n) == reset(S, n)

(***************************************************************************)
(* Box operations                                                          *)
(***************************************************************************)
Boxed == DOMAIN layout

\* changed: the value written differs from the value the field held.
Op(name, n, parent, changed) ==
    [op |-> name, node |-> n, parent |-> parent, changed |-> changed]

Commit(S, op) ==
    /\ layout' = S.lay
    /\ writes' = S.log
    /\ boxOp' = op

SetContentTop(n, v) ==
    /\ n \in Boxed
    /\ Commit(content_top_set(Start, n, v),
              Op("content_top", n, 0, v # layout[n].content_top))
    /\ UNCHANGED <<children, late>>
    /\ UNCHANGED styleVars
    /\ UNCHANGED <<sizeVars, callVars>>

SetContentLeft(n, v) ==
    /\ n \in Boxed
    /\ Commit(content_left_set(Start, n, v),
              Op("content_left", n, 0, v # layout[n].content_left))
    /\ UNCHANGED <<children, late>>
    /\ UNCHANGED styleVars
    /\ UNCHANGED <<sizeVars, callVars>>

SetOriginTop(n, v) ==
    /\ n \in Boxed
    /\ Commit(origin_top_set(Start, n, v),
              Op("origin_top", n, 0, v # layout[n].origin_top))
    /\ UNCHANGED <<children, late>>
    /\ UNCHANGED styleVars
    /\ UNCHANGED <<sizeVars, callVars>>

SetOriginLeft(n, v) ==
    /\ n \in Boxed
    /\ Commit(origin_left_set(Start, n, v),
              Op("origin_left", n, 0, v # layout[n].origin_left))
    /\ UNCHANGED <<children, late>>
    /\ UNCHANGED styleVars
    /\ UNCHANGED <<sizeVars, callVars>>

\* A plain attribute of the box is assigned.
SetPlain(n, f, v) ==
    /\ n \in Boxed
    /\ Commit([Start EXCEPT !.lay[n] = [@ EXCEPT ![f] = v]], Op(f, n, 0, TRUE))
    /\ UNCHANGED <<children, late>>
    /\ UNCHANGED styleVars
    /\ UNCHANGED <<sizeVars, callVars>>

Reset(n) ==
    /\ n \in Boxed
    /\ Commit(reset(Start, n), Op("reset", n, 0, TRUE))
    /\ UNCHANGED <<children, late>>
    /\ UNCHANGED styleVars
    /\ UNCHANGED <<sizeVars, callVars>>

Attached == {Root} \cup UNION {{children[n][i] : i \in DOMAIN children[n]} : n \in DOMAIN children}

\* A node is given a box (or none) and appended to the child list of an
\* attached node.
Attach(p, c, boxed) ==
    /\ p \in Attached
    /\ c \notin Attached
    /\ children' = [children EXCEPT ![p] = Append(@, c)]
    /\ IF boxed
       THEN /\ Commit(new_box(Start, c), Op("attach", c, p, TRUE))
            /\ late' = IF /\ p \in Boxed
                          /\ \/ absolute_content_top(layout[p]) # 0
                             \/ absolute_content_left(layout[p]) # 0
                       THEN late \cup {c}
                       ELSE late
       ELSE /\ Commit(Start, Op("attach", c, p, FALSE))
            /\ late' = late
    /\ UNCHANGED styleVars
    /\ UNCHANGED <<sizeVars, callVars>>

(***************************************************************************)
(* Python values.  A string is the sequence of its characters; a float is  *)
(* counted in halves (n = 3 is 1.5), which is exact for the inputs used.   *)
(***************************************************************************)
PyNone == [k |-> "None", n |-> 0, s |-> <<>>]

PyInt(i) == [k |-> "int", n |-> i, s |-> <<>>]

PyFloat(halves) == [k |-> "float", n |-> halves, s |-> <<>>]

PyStr(chars) == [k |-> "str", n |-> 0, s |-> chars]

PyColor(chars) == [k |-> "color", n |-> 0, s |-> chars]

Halves(v) == IF v.k = "int" THEN 2 * v.n ELSE v.n

\* Python's ==: numbers compare by value across int and float.
PyEq(a, b) ==
    IF a.k \in {"int", "float"} /\ b.k \in {"int", "float"}
    THEN Halves(a) = Halves(b)
    ELSE a = b

Ok(v) == [ok |-> TRUE, value |-> v]

Fail == [ok |-> FALSE, value |-> PyNone]

RECURSIVE lstrip(_), rstrip(_), int_of_digits(_)

lstrip(chars) ==
    IF chars # <<>> /\ Head(chars) = " " THEN lstrip(Tail(chars)) ELSE chars

rstrip(chars) ==
    IF chars # <<>> /\ chars[Len(chars)] = " "
    THEN rstrip(SubSeq(chars, 1, Len(chars) - 1))
    ELSE chars

\* str.strip()
strip(chars) == rstrip(lstrip(chars))

Digits == {"0", "1", "2", "3", "4", "5", "6", "7", "8", "9"}

digit(c) ==
    CASE c = "0" -> 0 [] c = "1" -> 1 [] c = "2" -> 2 [] c = "3" -> 3 [] c = "4" -> 4
      [] c = "5" -> 5 [] c = "6" -> 6 [] c = "7" -> 7 [] c = "8" -> 8 [] c = "9" -> 9

is_digits(chars) == chars # <<>> /\ \A i \in DOMAIN chars : chars[i] \in Digits

int_of_digits(chars) ==
    IF chars = <<>>
    THEN 0
    ELSE 10 * int_of_digits(SubSeq(chars, 1, Len(chars) - 1)) + digit(chars[Len(chars)])

\* int(value): a number is truncated, a string is stripped and read as decimal
\* digits; None, a colour and any other string raise TypeError or ValueError.
int(value) ==
    CASE value.k = "int" -> Ok(value)
      [] value.k = "float" -> Ok(PyInt(value.n \div 2))
      [] value.k = "str" ->
            LET t == strip(value.s)
            IN  IF is_digits(t) THEN Ok(PyInt(int_of_digits(t))) ELSE Fail
      [] OTHER -> Fail

\* float(value): digits, or digits followed by ".0" or ".5".
float(value) ==
    CASE value.k = "int" -> Ok(PyFloat(2 * value.n))
      [] value.k = "float" -> Ok(value)
      [] value.k = "str" ->
            LET t == strip(value.s)
                L == Len(t)
            IN  IF is_digits(t)
                THEN Ok(PyFloat(2 * int_of_digits(t)))
                ELSE IF /\ L >= 3
                        /\ t[L - 1] = "."
                        /\ t[L] \in {"0", "5"}
                        /\ is_digits(SubSeq(t, 1, L - 2))
                THEN Ok(PyFloat(2 * int_of_digits(SubSeq(t, 1, L - 2))
                              + (IF t[L] = "5" THEN 1 ELSE 0)))
                ELSE Fail
      [] OTHER -> Fail

\* The colours the colour constructor knows by name.
ColorNames == {<<"r", "e", "d">>}

\* color(value) of the colors module: a colour is returned as it is, a known
\* name becomes a colour, anything else raises ValueError.
color(value) ==
    CASE value.k = "color" -> Ok(value)
      [] value.k = "str" /\ value.s \in ColorNames -> Ok(PyColor(value.s))
      [] OTHER -> Fail

NoneLiteral == PyStr(<<"n", "o", "n", "e">>)

(***************************************************************************)
(* at_least.  The wrapped value is a number or None.                       *)
(***************************************************************************)
\* at_least.__init__
at_least(value) == [k |-> "at_least", n |-> value.n, s |-> <<value.k>>]

\* An object of another class that has a value attribute.
Holder(value) == [k |-> "holder", n |-> value.n, s |-> <<value.k>>]

\* other.value is there; otherwise reading it raises AttributeError.
has_value(other) == other.k \in {"at_least", "holder"}

\* self.value
value_of(self) == [k |-> self.s[1], n |-> self.n, s |-> <<>>]

\* A comparison that unwraps at_least and compares whatever is left.
at_least_eq_unwrapped(self, other) ==
    PyEq(value_of(self), IF has_value(other) THEN value_of(other) ELSE other)

\* at_least.__eq__
at_least_eq(self, other) ==
    IF has_value(other)
    THEN PyEq(value_of(self), value_of(other))
    ELSE FALSE

\* a != b.  at_least defines __eq__ only, so its != is the negation of __eq__;
\* a number or None on the left does not know an at_least and leaves the
\* answer to the at_least on the right.
py_ne(a, b) ==
    IF a.k = "at_least" THEN ~at_least_eq(a, b)
    ELSE IF b.k = "at_least" THEN ~at_least_eq(b, a)
    ELSE ~PyEq(a, b)

(***************************************************************************)
(* BaseIntrinsicSize                                                       *)
(***************************************************************************)
\* BaseIntrinsicSize.__init__; layout is TRUE when a layout is given.
new_size(w, h, ratio, lay) ==
    [width |-> w, height |-> h, ratio |-> PyNone, layout |-> lay]

\* A size operation threads Z = [obj |-> the size, calls |-> the dirty() calls
\* made, compared |-> how often the stored value was compared].
StartSize == [obj |-> intrinsic, calls |-> <<>>, compared |-> 0]

\* self._layout.dirty(keyword=value)
notify(Z, keyword, value) == [Z EXCEPT !.calls = Append(@, <<keyword, value>>)]

\* A setter that reports the change whether or not a layout is attached.
width_set_unattached(Z, value) ==
    LET Z1 == [Z EXCEPT !.compared = @ + 1]
    IN  IF py_ne(Z.obj.width, value)
        THEN notify([Z1 EXCEPT !.obj.width = value], "intrinsic_width", value)
        ELSE Z1

\* width.setter
width_set(Z, value) ==
    LET Z1 == [Z EXCEPT !.compared = @ + 1]
    IN  IF py_ne(Z.obj.width, value)
        THEN LET Z2 == [Z1 EXCEPT !.obj.width = value]
             IN  IF Z2.obj.layout THEN notify(Z2, "intrinsic_width", value) ELSE Z2
        ELSE Z1

\* A setter that stores and reports every write.
height_set_always(Z, value) ==
    LET Z2 == [Z EXCEPT !.compared = @ + 1, !.obj.height = value]
    IN  IF Z2.obj.layout THEN notify(Z2, "intrinsic_height", value) ELSE Z2

\* height.setter
height_set(Z, value) ==
    LET Z1 == [Z EXCEPT !.compared = @ + 1]
    IN  IF py_ne(Z.obj.height, value)
        THEN LET Z2 == [Z1 EXCEPT !.obj.height = value]
             IN  IF Z2.obj.layout THEN notify(Z2, "intrinsic_height", value) ELSE Z2
        ELSE Z1

\* ratio.setter
ratio_set(Z, value) ==
    LET Z1 == [Z EXCEPT !.compared = @ + 1]
    IN  IF py_ne(Z.obj.ratio, value)
        THEN LET Z2 == [Z1 EXCEPT !.obj.ratio = value]
             IN  IF Z2.obj.layout THEN notify(Z2, "intrinsic_ratio", value) ELSE Z2
        ELSE Z1

(***************************************************************************)
(* Size operations                                                         *)
(***************************************************************************)
\* The last operation: the field written, the value given, the value the
\* field held before, whether it was the first write to the size, how often
\* the setter compared, and the arguments the size was constructed with.
SizeOp(name, field, value, before, first, compared, args) ==
    [op |-> name, field |-> field, value |-> value, before |-> before,
     first |-> first, compared |-> compared, args |-> args]

CommitSize(Z, field, value) ==
    /\ intrinsic' = Z.obj
    /\ dirty' = Z.calls
    /\ sizeOp' = SizeOp("set", field, value, intrinsic[field], sizeOp.op = "new",
                        Z.compared, sizeOp.args)
    /\ UNCHANGED boxVars
    /\ UNCHANGED styleVars
    /\ UNCHANGED callVars

\* intrinsic.width = value
SetWidth(value) == CommitSize(width_set(StartSize, value), "width", value)

\* intrinsic.height = value
SetHeight(value) == CommitSize(height_set(StartSize, value), "height", value)

\* intrinsic.ratio = value
SetRatio(value) == CommitSize(ratio_set(StartSize, value), "ratio", value)

(***************************************************************************)
(* Choices                                                                 *)
(***************************************************************************)
\* Choices.__init__
Choices(constants, default, string, integer, number, colour) ==
    [constants |-> constants, default |-> default, string |-> string,
     integer |-> integer, number |-> number, color |-> colour]

\* A validator that tries the integer coercion before the string one.
validate_integer_first(choices, value) ==
    IF choices.default /\ value.k = "None" THEN Ok(PyNone)
    ELSE IF choices.integer /\ int(value).ok THEN int(value)
    ELSE IF choices.string /\ value.k = "str" THEN Ok(PyStr(strip(value.s)))
    ELSE IF choices.number /\ float(value).ok THEN float(value)
    ELSE IF choices.color /\ color(value).ok THEN color(value)
    ELSE LET v == IF value = NoneLiteral THEN PyNone ELSE value
         IN  IF \E const \in choices.constants : PyEq(v, const)
             THEN Ok(CHOOSE const \in choices.constants : PyEq(v, const))
             ELSE Fail

\* A validator that compares the literal "none" with the constants as it is.
validate_none_as_string(choices, value) ==
    IF choices.default /\ value.k = "None" THEN Ok(PyNone)
    ELSE IF choices.string /\ value.k = "str" THEN Ok(PyStr(strip(value.s)))
    ELSE IF choices.integer /\ int(value).ok THEN int(value)
    ELSE IF choices.number /\ float(value).ok THEN float(value)
    ELSE IF choices.color /\ color(value).ok THEN color(value)
    ELSE IF \E const \in choices.constants : PyEq(value, const)
         THEN Ok(CHOOSE const \in choices.constants : PyEq(value, const))
         ELSE Fail

\* Choices.validate
validate(choices, value) ==
    IF choices.default /\ value.k = "None" THEN Ok(PyNone)
    ELSE IF choices.string /\ value.k = "str" THEN Ok(PyStr(strip(value.s)))
    ELSE IF choices.integer /\ int(value).ok THEN int(value)
    ELSE IF choices.number /\ float(value).ok THEN float(value)
    ELSE IF choices.color /\ color(value).ok THEN color(value)
    ELSE LET v == IF value = NoneLiteral THEN PyNone ELSE value
         IN  IF \E const \in choices.constants : PyEq(v, const)
             THEN Ok(CHOOSE const \in choices.constants : PyEq(v, const))
             ELSE Fail

(***************************************************************************)
(* Property names.  A name is the sequence of its words and separators,    *)
(* so that <<"thing", "-", "top">> is "thing-top"; a directional template  *)
(* holds "%s" where the side goes.                                         *)
(***************************************************************************)
RECURSIVE format(_, _)

\* name.replace("-", "_")
normalise(name) == [i \in DOMAIN name |-> IF name[i] = "-" THEN "_" ELSE name[i]]

\* name % suffix
format(template, suffix) ==
    IF template = <<>>
    THEN <<>>
    ELSE (IF Head(template) = "%s" THEN suffix ELSE <<Head(template)>>)
             \o format(Tail(template), suffix)

Top == <<"_", "top">>
Right == <<"_", "right">>
Bottom == <<"_", "bottom">>
Left == <<"_", "left">>

(***************************************************************************)
(* Class registration.  R = [P, A, acc, err]: the two registries, the      *)
(* accessors installed on the classes, and the error raised, if any.       *)
(***************************************************************************)
\* registry.get(cls, set())
registered(registry, cls) == IF cls \in DOMAIN registry THEN registry[cls] ELSE {}

\* registry.setdefault(cls, set()).add(name)
register(registry, cls, name) ==
    (cls :> (registered(registry, cls) \cup {name})) @@ registry

\* setattr(cls, name, property(...))
install(acc, cls, name, accessor) ==
    (cls :> ((name :> accessor) @@ (IF cls \in DOMAIN acc THEN acc[cls] ELSE <<>>))) @@ acc

NoChoices == Choices({}, FALSE, FALSE, FALSE, FALSE, FALSE)

\* A registration that enters the name and installs the accessor before it
\* validates the initial value.
validated_property_eager(R, cls, name, choices, initial) ==
    LET initial_ == validate(choices, initial)
    IN  [P |-> register(R.P, cls, name),
         A |-> register(R.A, cls, name),
         acc |-> install(R.acc, cls, name,
                         [kind |-> "validated", choices |-> choices,
                          initial |-> initial_.value, template |-> <<>>]),
         err |-> IF initial_.ok THEN R.err ELSE "InvalidInitialValue"]

\* BaseStyle.validated_property
validated_property(R, cls, name, choices, initial) ==
    LET initial_ == validate(choices, initial)
    IN  IF ~initial_.ok
        THEN [R EXCEPT !.err = "InvalidInitialValue"]
        ELSE [P |-> register(R.P, cls, name),
              A |-> register(R.A, cls, name),
              acc |-> install(R.acc, cls, name,
                              [kind |-> "validated", choices |-> choices,
                               initial |-> initial_.value, template |-> <<>>]),
              err |-> R.err]

\* BaseStyle.directional_property
directional_property(R, cls, template) ==
    [P |-> R.P,
     A |-> register(R.A, cls, format(template, <<>>)),
     acc |-> install(R.acc, cls, format(template, <<>>),
                     [kind |-> "directional", choices |-> NoChoices,
                      initial |-> PyNone, template |-> template]),
     err |-> R.err]

(***************************************************************************)
(* Instance operations.  T = [inst, cls, attrs, log, err]: the instance,   *)
(* its class, its stored values, the apply() calls made and the exception  *)
(* raised, if any.  A call made after an exception does nothing.           *)
(***************************************************************************)
Scalar(v) == [tuple |-> FALSE, elems |-> <<v>>]

Tuple(vs) == [tuple |-> TRUE, elems |-> vs]

accessor(cls, name) == accessors[cls][name]

\* getattr(self, "_%s" % name, initial_): the effective value
getter(cls, attrs, name) ==
    IF name \in DOMAIN attrs THEN attrs[name] ELSE accessor(cls, name).initial

raise(T, error) == [T EXCEPT !.err = error]

\* A tuple is no value that any branch of validate accepts: no constant used
\* here is a tuple.
validate_input(choices, input) ==
    IF input.tuple THEN Fail ELSE validate(choices, input.elems[1])

\* A setter that stores and applies whatever it is given.
setter_always(T, name, input) ==
    LET r == validate_input(accessor(T.cls, name).choices, input)
    IN  IF ~r.ok
        THEN raise(T, "ValueError")
        ELSE [T EXCEPT !.attrs = (name :> r.value) @@ T.attrs,
                       !.log = Append(T.log, <<T.inst, name, r.value>>)]

\* validated_property: setter
setter(T, name, input) ==
    LET r == validate_input(accessor(T.cls, name).choices, input)
    IN  IF ~r.ok
        THEN raise(T, "ValueError")
        ELSE IF ~PyEq(r.value, getter(T.cls, T.attrs, name))
        THEN [T EXCEPT !.attrs = (name :> r.value) @@ T.attrs,
                       !.log = Append(T.log, <<T.inst, name, r.value>>)]
        ELSE T

\* A deleter that applies the initial value on every delete.
deleter_always(T, name) ==
    IF name \in DOMAIN T.attrs
    THEN [T EXCEPT !.attrs = [n \in DOMAIN T.attrs \ {name} |-> T.attrs[n]],
                   !.log = Append(T.log, <<T.inst, name, accessor(T.cls, name).initial>>)]
    ELSE T

\* validated_property: deleter
deleter(T, name) ==
    IF name \in DOMAIN T.attrs
    THEN LET value == T.attrs[name]
             initial_ == accessor(T.cls, name).initial
             T1 == [T EXCEPT !.attrs = [n \in DOMAIN T.attrs \ {name} |-> T.attrs[n]]]
         IN  IF ~PyEq(value, initial_)
             THEN [T1 EXCEPT !.log = Append(T.log, <<T.inst, name, initial_>>)]
             ELSE T1
    ELSE T

\* One statement of a handler: skipped when an exception is under way.
then_set(T, name, input) == IF T.err # "" THEN T ELSE setter(T, name, input)

then_delete(T, name) == IF T.err # "" THEN T ELSE deleter(T, name)

\* The four setattr calls of one branch of the directional setter.
set_sides(T, template, top, right, bottom, left) ==
    then_set(then_set(then_set(then_set(T,
        format(template, Top), Scalar(top)),
        format(template, Right), Scalar(right)),
        format(template, Bottom), Scalar(bottom)),
        format(template, Left), Scalar(left))

\* A directional setter that reads a 3-tuple as (top, right, bottom, top).
directional_setter_wrong3(T, template, input) ==
    LET value == input.elems
    IN  IF input.tuple /\ Len(value) = 3
        THEN set_sides(T, template, value[1], value[2], value[3], value[1])
        ELSE IF input.tuple /\ Len(value) = 4
        THEN set_sides(T, template, value[1], value[2], value[3], value[4])
        ELSE IF input.tuple /\ Len(value) = 2
        THEN set_sides(T, template, value[1], value[2], value[1], value[2])
        ELSE IF Len(value) = 1
        THEN set_sides(T, template, value[1], value[1], value[1], value[1])
        ELSE raise(T, "InvalidShorthand")

\* A directional setter that takes the first four elements of a longer tuple.
directional_setter_lenient(T, template, input) ==
    LET value == input.elems
    IN  IF input.tuple /\ Len(value) >= 4
        THEN set_sides(T, template, value[1], value[2], value[3], value[4])
        ELSE IF input.tuple /\ Len(value) = 3
        THEN set_sides(T, template, value[1], value[2], value[3], value[2])
        ELSE IF input.tuple /\ Len(value) = 2
        THEN set_sides(T, template, value[1], value[2], value[1], value[2])
        ELSE IF Len(value) = 1
        THEN set_sides(T, template, value[1], value[1], value[1], value[1])
        ELSE raise(T, "InvalidShorthand")

\* directional_property: setter
directional_setter(T, template, input) ==
    LET value == input.elems
    IN  IF input.tuple
        THEN IF Len(value) = 4
             THEN set_sides(T, template, value[1], value[2], value[3], value[4])
             ELSE IF Len(value) = 3
             THEN set_sides(T, template, value[1], value[2], value[3], value[2])
             ELSE IF Len(value) = 2
             THEN set_sides(T, template, value[1], value[2], value[1], value[2])
             ELSE IF Len(value) = 1
             THEN set_sides(T, template, value[1], value[1], value[1], value[1])
             ELSE raise(T, "InvalidShorthand")
        ELSE set_sides(T, template, value[1], value[1], value[1], value[1])

\* directional_property: getter
directional_getter(cls, attrs, template) ==
    <<getter(cls, attrs, format(template, Top)),
      getter(cls, attrs, format(template, Right)),
      getter(cls, attrs, format(template, Bottom)),
      getter(cls, attrs, format(template, Left))>>

\* directional_property: deleter
directional_deleter(T, template) ==
    then_delete(then_delete(then_delete(then_delete(T,
        format(template, Top)),
        format(template, Right)),
        format(template, Bottom)),
        format(template, Left))

\* setattr(self, name, value), for a name the class has an accessor for
set_attr(T, name, input) ==
    IF accessor(T.cls, name).kind = "validated"
    THEN setter(T, name, input)
    ELSE directional_setter(T, accessor(T.cls, name).template, input)

\* delattr(self, name)
del_attr(T, name) ==
    IF accessor(T.cls, name).kind = "validated"
    THEN deleter(T, name)
    ELSE directional_deleter(T, accessor(T.cls, name).template)

\* getattr(self, name): a validated property gives one value, a directional
\* one the tuple of four
get_attr(cls, attrs, name) ==
    IF accessor(cls, name).kind = "validated"
    THEN <<getter(cls, attrs, name)>>
    ELSE directional_getter(cls, attrs, accessor(cls, name).template)

RECURSIVE update(_, _)

\* An update that looks names up in the registry of validated properties.
update_settable_only(T, styles) ==
    IF styles = <<>> \/ T.err # ""
    THEN T
    ELSE LET name == normalise(Head(styles).name)
         IN  IF name \notin registered(PROPERTIES, T.cls)
             THEN raise(T, "NameError")
             ELSE update(set_attr(T, name, Head(styles).value), Tail(styles))

RECURSIVE update_each(_, _)

update_each(T, styles) ==
    IF styles = <<>> \/ T.err # ""
    THEN T
    ELSE LET name == normalise(Head(styles).name)
         IN  IF name \notin registered(ALL_PROPERTIES, T.cls)
             THEN raise(T, "NameError")
             ELSE update_each(set_attr(T, name, Head(styles).value), Tail(styles))

\* An update that keeps none of its changes when one of them fails.
update_all_or_nothing(T, styles) ==
    LET R == update_each(T, styles)
    IN  IF R.err # "" THEN raise(T, R.err) ELSE R

\* BaseStyle.update: styles is the sequence of the keyword arguments
update(T, styles) ==
    IF styles = <<>> \/ T.err # ""
    THEN T
    ELSE LET name == normalise(Head(styles).name)
         IN  IF name \notin registered(ALL_PROPERTIES, T.cls)
             THEN raise(T, "NameError")
             ELSE update(set_attr(T, name, Head(styles).value), Tail(styles))

\* BaseStyle.__setitem__
setitem(T, key, input) ==
    LET name == normalise(key)
    IN  IF name \in registered(PROPERTIES, T.cls)
        THEN set_attr(T, name, input)
        ELSE raise(T, "KeyError")

\* BaseStyle.__delitem__
delitem(T, key) ==
    LET name == normalise(key)
    IN  IF name \in registered(PROPERTIES, T.cls)
        THEN del_attr(T, name)
        ELSE raise(T, "KeyError")

\* BaseStyle.__getitem__: the value, or KeyError
getitem(cls, attrs, key) ==
    LET name == normalise(key)
    IN  IF name \in registered(PROPERTIES, cls)
        THEN [err |-> "", got |-> get_attr(cls, attrs, name)]
        ELSE [err |-> "KeyError", got |-> <<>>]

\* BaseStyle.items, as the set of its pairs
items(cls, attrs) ==
    {<<name, attrs[name]>> : name \in registered(PROPERTIES, cls) \cap DOMAIN attrs}

\* BaseStyle.keys
keys(cls, attrs) == registered(PROPERTIES, cls) \cap DOMAIN attrs

RECURSIVE copy_each(_, _, _)

\* The loop of copy: every stored value of the original is set on the duplicate.
copy_each(D, attrs, order) ==
    IF order = <<>>
    THEN D
    ELSE copy_each(IF Head(order) \in DOMAIN attrs
                   THEN then_set(D, Head(order), Scalar(attrs[Head(order)]))
                   ELSE D,
                   attrs, Tail(order))

\* BaseStyle.copy: dup is a new instance of the class; order is the order in
\* which the set of properties is iterated.
copy(dup, cls, attrs, order) ==
    copy_each([inst |-> dup, cls |-> cls, attrs |-> <<>>, log |-> <<>>, err |-> ""],
              attrs, order)

(***************************************************************************)
(* The classes: Simple has three validated properties, Spaced has the four *)
(* sides of "thing" and the directional composite over them.               *)
(***************************************************************************)
VALUE1 == PyStr(<<"v", "a", "l", "u", "e", "1">>)
VALUE2 == PyStr(<<"v", "a", "l", "u", "e", "2">>)

explicit_const == <<"explicit", "_", "const">>
implicit == <<"implicit">>
size == <<"size">>
thing == <<"thing">>
thing_top == <<"thing", "_", "top">>
thing_right == <<"thing", "_", "right">>
thing_bottom == <<"thing", "_", "bottom">>
thing_left == <<"thing", "_", "left">>

Sides == <<thing_top, thing_right, thing_bottom, thing_left>>

IntegerChoices == Choices({}, FALSE, FALSE, TRUE, FALSE, FALSE)

NoClasses == [P |-> <<>>, A |-> <<>>, acc |-> <<>>, err |-> ""]

SimpleClass(R) ==
    validated_property(
    validated_property(
    validated_property(R,
        "Simple", explicit_const, Choices({VALUE1, VALUE2}, FALSE, FALSE, FALSE, FALSE, FALSE), VALUE1),
        "Simple", implicit, Choices({VALUE1}, TRUE, FALSE, FALSE, FALSE, FALSE), PyNone),
        "Simple", size, IntegerChoices, PyInt(0))

SpacedClass(R) ==
    directional_property(
    validated_property(
    validated_property(
    validated_property(
    validated_property(R,
        "Spaced", thing_top, IntegerChoices, PyInt(0)),
        "Spaced", thing_right, IntegerChoices, PyInt(0)),
        "Spaced", thing_bottom, IntegerChoices, PyInt(0)),
        "Spaced", thing_left, IntegerChoices, PyInt(0)),
        "Spaced", <<"thing", "%s">>)

Classes == SpacedClass(SimpleClass(NoClasses))

InitClasses ==
    /\ PROPERTIES = Classes.P
    /\ ALL_PROPERTIES = Classes.A
    /\ accessors = Classes.acc

NoOp ==
    [op |-> "init", inst |-> "", name |-> <<>>, input |-> Scalar(PyNone),
     styles |-> <<>>, err |-> "", got |-> <<>>]

\* The style declarations take no part in the box specifications.
NoStyles ==
    /\ InitClasses
    /\ style = <<>>
    /\ applied = <<>>
    /\ styleOp = NoOp
    /\ prev = <<>>

\* The boxes take no part in the style specifications.
NoBoxes ==
    /\ children = <<>>
    /\ layout = <<>>
    /\ writes = <<>>
    /\ boxOp = Op("init", 0, 0, FALSE)
    /\ late = {}

\* The intrinsic size takes no part in the box and style specifications.
NoSizes ==
    /\ intrinsic = new_size(PyNone, PyNone, PyNone, FALSE)
    /\ dirty = <<>>
    /\ sizeOp = SizeOp("none", "", PyNone, PyNone, FALSE, 0, <<>>)

\* No function is called on its own.
NoCalls ==
    /\ call = <<>>
    /\ result = <<>>

(***************************************************************************)
(* Style operations                                                        *)
(***************************************************************************)
Begin(i) ==
    [inst |-> i, cls |-> style[i].cls, attrs |-> style[i].attrs, log |-> <<>>, err |-> ""]

\* The operation ends, with or without an exception: what was stored and
\* applied before the exception stays.
Finish(T, op) ==
    /\ style' = (T.inst :> [cls |-> T.cls, attrs |-> T.attrs]) @@ style
    /\ applied' = T.log
    /\ styleOp' = [op EXCEPT !.inst = T.inst, !.err = T.err]
    /\ prev' = style
    /\ UNCHANGED classVars
    /\ UNCHANGED boxVars
    /\ UNCHANGED <<sizeVars, callVars>>

\* instance.name = input
SetAttr(i, name, input) ==
    /\ i \in DOMAIN style
    /\ name \in DOMAIN accessors[style[i].cls]
    /\ Finish(set_attr(Begin(i), name, input),
              [NoOp EXCEPT !.op = "set", !.name = name, !.input = input])

\* del instance.name
DelAttr(i, name) ==
    /\ i \in DOMAIN style
    /\ name \in DOMAIN accessors[style[i].cls]
    /\ Finish(del_attr(Begin(i), name), [NoOp EXCEPT !.op = "del", !.name = name])

\* instance[key] = input
SetItem(i, key, input) ==
    /\ i \in DOMAIN style
    /\ Finish(setitem(Begin(i), key, input),
              [NoOp EXCEPT !.op = "setitem", !.name = key, !.input = input])

\* del instance[key]
DelItem(i, key) ==
    /\ i \in DOMAIN style
    /\ Finish(delitem(Begin(i), key), [NoOp EXCEPT !.op = "delitem", !.name = key])

\* instance[key]
GetItem(i, key) ==
    /\ i \in DOMAIN style
    /\ LET r == getitem(style[i].cls, style[i].attrs, key)
       IN  Finish([Begin(i) EXCEPT !.err = r.err],
                  [NoOp EXCEPT !.op = "getitem", !.name = key, !.got = r.got])

\* instance.update(**styles)
Update(i, styles) ==
    /\ i \in DOMAIN style
    /\ Finish(update(Begin(i), styles), [NoOp EXCEPT !.op = "update", !.styles = styles])

\* dup = instance.copy()
Copy(i, dup, order) ==
    /\ i \in DOMAIN style
    /\ dup # i
    /\ Finish(copy(dup, style[i].cls, style[i].attrs, order),
              [NoOp EXCEPT !.op = "copy", !.name = <<i>>])

(***************************************************************************)
(* SpecTree: a tree built before any write; offsets are written on any box *)
(* and the origin on the root box.                                         *)
(***************************************************************************)
TreeNodes == {1, 2, 3, 4}

TreeChildren ==
    (1 :> <<3, 2>>) @@ (2 :> <<4>>) @@ (3 :> <<>>) @@ (4 :> <<>>)

\* Node 3 takes no part in layout.
TreeBoxed == {1, 2, 4}

InitTree ==
    /\ children = TreeChildren
    /\ layout = [n \in TreeBoxed |-> FreshBox]
    /\ writes = <<>>
    /\ boxOp = Op("init", 0, 0, FALSE)
    /\ late = {}
    /\ NoStyles
    /\ NoSizes
    /\ NoCalls

NextTree ==
    \/ \E n \in TreeNodes, v \in TopOffsets : SetContentTop(n, v)
    \/ \E n \in TreeNodes, v \in LeftOffsets : SetContentLeft(n, v)
    \/ \E v \in Origins : SetOriginTop(Root, v)
    \/ \E v \in Origins : SetOriginLeft(Root, v)

SpecTree == InitTree /\ [][NextTree]_vars

\* Every box of a child is at its parent's absolute content-box top-left.
ChildrenAtContentBox ==
    \A p \in Boxed : \A i \in DOMAIN children[p] :
        LET c == children[p][i]
        IN  c \in Boxed =>
                /\ layout[c].origin_top = absolute_content_top(layout[p])
                /\ layout[c].origin_left = absolute_content_left(layout[p])

\* C1: in a tree built before any write, after any writes of content_top and
\* content_left and any origin changes of the root, every child's box has its
\* origin at its parent's absolute content-box top-left, at every depth.
C1_ChildOriginIsParentContentBox == ChildrenAtContentBox

\* A grandchild sits at a content box that its parent's and the root's
\* offsets and the root's origin all moved, past a child without a box.
C1_Witness ==
    /\ boxOp.op = "origin_left"
    /\ layout[1].origin_top = 100 /\ layout[1].content_top = 10
    /\ layout[2].content_top = 10 /\ layout[2].content_left = 5
    /\ layout[2].origin_top = 110
    /\ layout[4].origin_top = 120
    /\ layout[4].origin_left = 105
    /\ 3 \notin Boxed

(***************************************************************************)
(* SpecBox: the tree grows while the boxes are written and reset.          *)
(***************************************************************************)
BoxNodes == {1, 2}

\* The values of the origin-propagation scenario.
ScenarioTops == {0, 10}
ScenarioLefts == {0, 5}
ScenarioOrigins == {0, 100}

PlainFields == {"content_width", "content_bottom"}

InitBox ==
    /\ children = [n \in BoxNodes |-> <<>>]
    /\ layout = (Root :> FreshBox)
    /\ writes = <<>>
    /\ boxOp = Op("init", 0, 0, FALSE)
    /\ late = {}
    /\ NoStyles
    /\ NoSizes
    /\ NoCalls

NextBox ==
    \/ \E n \in BoxNodes, v \in ScenarioTops : SetContentTop(n, v)
    \/ \E n \in BoxNodes, v \in ScenarioLefts : SetContentLeft(n, v)
    \/ \E v \in ScenarioOrigins : SetOriginTop(Root, v)
    \/ \E v \in ScenarioOrigins : SetOriginLeft(Root, v)
    \/ \E f \in PlainFields, v \in Dimensions : SetPlain(Root, f, v)
    \/ \E v \in BOOLEAN : SetPlain(Root, "visible", v)
    \/ \E n \in BoxNodes : Reset(n)
    \/ \E p, c \in BoxNodes, boxed \in BOOLEAN : Attach(p, c, boxed)

SpecBox == InitBox /\ [][NextBox]_vars

\* C2: after reset() of a box, the box is visible with every dimension and
\* offset zero and its origin at (0,0), and every child's box has its origin at
\* the box's absolute content-box top-left, (0,0).
C2_ResetPushesOriginToChildren ==
    boxOp.op = "reset" =>
        /\ layout[boxOp.node] = FreshBox
        /\ \A i \in DOMAIN children[boxOp.node] :
               LET c == children[boxOp.node][i]
               IN  c \in Boxed =>
                       /\ layout[c].origin_top = 0
                       /\ layout[c].origin_left = 0

\* The property of the origin-propagation scenario after the parent's origin
\* moved: with the parent's content box at offset 10 (5) and its origin changed
\* to 100, every child's box has its absolute content top (left) at 110 (105)
\* plus its own offset.
MovedParentPlacesChildren ==
    /\ ( /\ boxOp.op = "origin_top" /\ boxOp.changed
         /\ layout[boxOp.node].origin_top = 100
         /\ layout[boxOp.node].content_top = 10 ) =>
           \A i \in DOMAIN children[boxOp.node] :
               LET c == children[boxOp.node][i]
               IN  c \in Boxed =>
                       absolute_content_top(layout[c]) = 110 + layout[c].content_top
    /\ ( /\ boxOp.op = "origin_left" /\ boxOp.changed
         /\ layout[boxOp.node].origin_left = 100
         /\ layout[boxOp.node].content_left = 5 ) =>
           \A i \in DOMAIN children[boxOp.node] :
               LET c == children[boxOp.node][i]
               IN  c \in Boxed =>
                       absolute_content_left(layout[c]) = 105 + layout[c].content_left

\* A box was just attached under a parent box with content_top = 10,
\* content_left = 5 and origin (0,0).
AttachedUnderOffsetParent ==
    /\ boxOp.op = "attach" /\ boxOp.changed
    /\ boxOp.parent \in Boxed
    /\ layout[boxOp.parent].content_top = 10
    /\ layout[boxOp.parent].content_left = 5
    /\ layout[boxOp.parent].origin_top = 0
    /\ layout[boxOp.parent].origin_left = 0

\* C3 as stated: a box attached under a parent with content_top = 10,
\* content_left = 5 and origin (0,0) has its absolute content top-left at (10, 5)
\* plus its own offsets right after the attachment, and at (110, 105) plus its
\* own offsets after the parent's origin moved to (100, 100).
C3_AttachedChildAtParentContentBox ==
    /\ AttachedUnderOffsetParent =>
           /\ absolute_content_top(layout[boxOp.node]) = 10 + layout[boxOp.node].content_top
           /\ absolute_content_left(layout[boxOp.node]) = 5 + layout[boxOp.node].content_left
    /\ MovedParentPlacesChildren

\* C3, amended: a box attached under a parent box keeps the origin (0,0) of its
\* construction, so that its absolute content top-left is its own offsets,
\* whatever the parent's content box; once a coordinate of the parent's origin
\* changes to 100, the child's absolute content top (left) is 110 (105) plus its
\* own offset.
C3_AttachedChildStaysUntilParentMoves ==
    /\ (boxOp.op = "attach" /\ boxOp.changed) =>
           /\ layout[boxOp.node].origin_top = 0
           /\ layout[boxOp.node].origin_left = 0
           /\ absolute_content_top(layout[boxOp.node]) = layout[boxOp.node].content_top
           /\ absolute_content_left(layout[boxOp.node]) = layout[boxOp.node].content_left
    /\ MovedParentPlacesChildren

\* A box attached under a parent whose content box was already offset sits at
\* (110, 105) plus its own offsets after the parent's origin moved to (100, 100).
C3_Witness ==
    /\ 2 \in late
    /\ boxOp.op = "origin_left" /\ boxOp.changed /\ boxOp.node = Root
    /\ layout[Root].origin_top = 100 /\ layout[Root].origin_left = 100
    /\ layout[Root].content_top = 10 /\ layout[Root].content_left = 5
    /\ layout[2].content_top = 10
    /\ absolute_content_top(layout[2]) = 120
    /\ absolute_content_left(layout[2]) = 105


\* Every child's box is at the content-box edge of the box just written, on
\* the axis written.
ChildrenResynced(lay, n, side) ==
    \A i \in DOMAIN children[n] :
        LET c == children[n][i]
        IN  c \in DOMAIN lay =>
                IF side = "top"
                THEN lay[c].origin_top = absolute_content_top(lay[n])
                ELSE lay[c].origin_left = absolute_content_left(lay[n])

\* C18: a write of a box's origin with the value it holds leaves the box and
\* every other box as they were and writes no child's origin, whereas a write
\* of content_top or content_left puts every child's box at the recomputed
\* absolute content edge, also when the offset is written with the value it
\* holds.
C18_OriginGuardedContentAlways ==
    [][ /\ (boxOp'.op \in {"origin_top", "origin_left"} /\ ~boxOp'.changed) =>
               /\ layout' = layout
               /\ writes' = <<>>
        /\ boxOp'.op = "content_top" => ChildrenResynced(layout', boxOp'.node, "top")
        /\ boxOp'.op = "content_left" => ChildrenResynced(layout', boxOp'.node, "left")
      ]_vars

\* content_left was written with the value it held, and the child attached
\* late was moved to the parent's content edge all the same.
C18_Witness ==
    /\ boxOp.op = "content_left" /\ boxOp.node = Root /\ ~boxOp.changed
    /\ 2 \in late
    /\ writes = << <<2, "left">> >>
    /\ layout[Root].content_left = 5
    /\ layout[2].origin_left = 5

(***************************************************************************)
(* SpecStyle: one declaration, of either class, is set, deleted, read and  *)
(* updated.                                                                *)
(***************************************************************************)
Scalars ==
    {PyNone, NoneLiteral, VALUE1, VALUE2, PyStr(<<" ", "1">>), PyStr(<<"x">>)}
        \cup {PyInt(i) : i \in 0..MaxInt}

\* The values a side is given, and the tuples: every tuple of a supported
\* length, tuples of the unsupported lengths, and tuples holding a value that
\* is converted or rejected.
SideValues == {PyInt(1), PyInt(2)}

Tuples ==
    {Tuple(t) : t \in UNION {[1..n -> SideValues] : n \in 1..4}}
        \cup {Tuple([i \in 1..n |-> PyInt(1)]) : n \in {0} \cup 5..MaxTuple}
        \cup {Tuple(<<PyInt(1), PyStr(<<"x">>)>>), Tuple(<<PyStr(<<"x">>), PyInt(1)>>),
              Tuple(<<PyStr(<<" ", "1">>), PyInt(2)>>)}

Inputs(cls, name) ==
    IF accessors[cls][name].kind = "directional"
    THEN Tuples \cup {Scalar(v) : v \in {PyInt(2), PyStr(<<"x">>)}}
    ELSE IF cls = "Spaced"
    THEN {Scalar(v) : v \in {PyInt(1), PyStr(<<"x">>)}}
    ELSE {Scalar(v) : v \in Scalars}

\* The keys of item access and update: names as registered, hyphenated
\* spellings, and names that no class registers.
Keys(cls) ==
    IF cls = "Simple"
    THEN {explicit_const, <<"explicit", "-", "const">>, size, <<"bogus">>,
          <<"explicit", "const">>}
    ELSE {thing, thing_top, <<"thing", "-", "left">>, <<"bogus">>, <<"thing", "-">>}

KeyInputs(cls, key) ==
    IF cls = "Simple"
    THEN {Scalar(VALUE2), Scalar(PyInt(1))}
    ELSE {Scalar(PyInt(2)), Tuple(<<PyInt(1), PyInt(2)>>)}

Changes(cls) ==
    IF cls = "Simple"
    THEN {[name |-> <<"explicit", "-", "const">>, value |-> Scalar(VALUE2)],
          [name |-> size, value |-> Scalar(PyStr(<<"x">>))],
          [name |-> <<"bogus">>, value |-> Scalar(PyInt(1))]}
    ELSE {[name |-> thing, value |-> Tuple(<<PyInt(1), PyInt(2)>>)],
          [name |-> <<"thing", "-", "top">>, value |-> Scalar(PyInt(2))],
          [name |-> <<"thing", "-">>, value |-> Scalar(PyInt(1))]}

Updates(cls) == UNION {[1..n -> Changes(cls)] : n \in 1..MaxChanges}

InitStyle ==
    /\ InitClasses
    /\ \E cls \in {"Simple", "Spaced"} : style = ("a" :> [cls |-> cls, attrs |-> <<>>])
    /\ applied = <<>>
    /\ styleOp = NoOp
    /\ prev = style
    /\ NoBoxes
    /\ NoSizes
    /\ NoCalls

NextStyle ==
    \/ \E name \in DOMAIN accessors[style["a"].cls] :
           \E input \in Inputs(style["a"].cls, name) : SetAttr("a", name, input)
    \/ \E name \in DOMAIN accessors[style["a"].cls] : DelAttr("a", name)
    \/ \E key \in Keys(style["a"].cls) :
           \E input \in KeyInputs(style["a"].cls, key) : SetItem("a", key, input)
    \/ \E key \in Keys(style["a"].cls) : DelItem("a", key)
    \/ \E key \in Keys(style["a"].cls) : GetItem("a", key)
    \/ \E styles \in Updates(style["a"].cls) : Update("a", styles)

SpecStyle == InitStyle /\ [][NextStyle]_vars


\* The declaration of SpecStyle, before and after the last operation.
cls == style["a"].cls
before == prev["a"].attrs
after == style["a"].attrs

Validated(name) ==
    /\ name \in DOMAIN accessors[cls]
    /\ accessors[cls][name].kind = "validated"

initial(name) == accessors[cls][name].initial

\* The last operation set the validated property `name` to styleOp.input.
SetOf(name) ==
    \/ styleOp.op = "set" /\ styleOp.name = name
    \/ /\ styleOp.op = "setitem" /\ normalise(styleOp.name) = name
       /\ name \in PROPERTIES[cls]

\* C4: setting a validated property to a value whose validated form equals the
\* effective value (the stored value, or the initial value) stores nothing and
\* calls no apply; setting it to a value whose validated form differs stores the
\* validated value and calls apply(name, validated value) exactly once.
C4_SetStoresAndAppliesOnlyAChange ==
    \A name \in DOMAIN accessors[cls] :
        (Validated(name) /\ SetOf(name)) =>
            LET r == validate_input(accessors[cls][name].choices, styleOp.input)
                effective == IF name \in DOMAIN before THEN before[name] ELSE initial(name)
            IN  r.ok =>
                    IF PyEq(r.value, effective)
                    THEN after = before /\ applied = <<>>
                    ELSE /\ after = (name :> r.value) @@ before
                         /\ applied = << <<"a", name, r.value>> >>

\* " 1" is set on a size that stores 1: its validated form is the stored value.
C4_Witness ==
    /\ cls = "Simple"
    /\ styleOp.op = "set" /\ styleOp.name = size
    /\ styleOp.input = Scalar(PyStr(<<" ", "1">>))
    /\ size \in DOMAIN before /\ before[size] = PyInt(1)
    /\ applied = <<>>

\* C5: after a delete of a validated property nothing is stored for it and it
\* reads as its initial value; the delete calls apply(name, initial) once if the
\* effective value before it differed from the initial value, and calls no
\* apply otherwise.
C5_DeleteRestoresInitial ==
    \A name \in DOMAIN accessors[cls] :
        ( /\ Validated(name)
          /\ \/ styleOp.op = "del" /\ styleOp.name = name
             \/ /\ styleOp.op = "delitem" /\ normalise(styleOp.name) = name
                /\ name \in PROPERTIES[cls] ) =>
            LET effective == IF name \in DOMAIN before THEN before[name] ELSE initial(name)
            IN  /\ name \notin DOMAIN after
                /\ getter(cls, after, name) = initial(name)
                /\ \A other \in DOMAIN before \ {name} :
                       other \in DOMAIN after /\ after[other] = before[other]
                /\ applied = IF PyEq(effective, initial(name))
                             THEN <<>>
                             ELSE << <<"a", name, initial(name)>> >>

\* A property that stored its own initial value is deleted: no apply.
C5_Witness ==
    /\ cls = "Simple"
    /\ styleOp.op = "del" /\ styleOp.name = explicit_const
    /\ explicit_const \in DOMAIN before /\ before[explicit_const] = VALUE1
    /\ implicit \in DOMAIN after
    /\ applied = <<>>

\* The four sides a directional input stands for.
Shorthand(value) ==
    CASE Len(value) = 4 -> <<value[1], value[2], value[3], value[4]>>
      [] Len(value) = 3 -> <<value[1], value[2], value[3], value[2]>>
      [] Len(value) = 2 -> <<value[1], value[2], value[1], value[2]>>
      [] Len(value) = 1 -> <<value[1], value[1], value[1], value[1]>>

AcceptedUnchanged(name, v) ==
    validate(accessors[cls][name].choices, v) = Ok(v)

SetDirectional ==
    /\ styleOp.op = "set"
    /\ styleOp.name \in DOMAIN accessors[cls]
    /\ accessors[cls][styleOp.name].kind = "directional"

\* C6: setting a directional property to (a,b,c,d), (a,b,c), (a,b), (a,) or a
\* scalar s, of values the validators of the four sides accept unchanged, and
\* getting it gives (a,b,c,d), (a,b,c,b), (a,b,a,b), (a,a,a,a) or (s,s,s,s), in
\* the order top, right, bottom, left.
C6_DirectionalRoundTrip ==
    ( /\ SetDirectional
      /\ Len(styleOp.input.elems) \in 1..4
      /\ \A i \in DOMAIN styleOp.input.elems : \A j \in 1..4 :
             AcceptedUnchanged(Sides[j], styleOp.input.elems[i]) ) =>
        /\ styleOp.err = ""
        /\ get_attr(cls, after, styleOp.name) = Shorthand(styleOp.input.elems)
        /\ <<getter(cls, after, thing_top), getter(cls, after, thing_right),
             getter(cls, after, thing_bottom), getter(cls, after, thing_left)>>
               = Shorthand(styleOp.input.elems)

\* (1, 2, 2) was set over other values and reads (1, 2, 2, 2).
C6_Witness ==
    /\ SetDirectional
    /\ styleOp.input = Tuple(<<PyInt(1), PyInt(2), PyInt(2)>>)
    /\ thing_left \in DOMAIN before /\ before[thing_left] = PyInt(1)
    /\ after[thing_top] = PyInt(1) /\ after[thing_left] = PyInt(2)

\* C7: setting a directional property to a tuple of length 0 or of more than 4
\* raises the shorthand error; none of the four sides changes and apply is not
\* called.
C7_BadShorthandChangesNothing ==
    ( /\ SetDirectional
      /\ styleOp.input.tuple
      /\ Len(styleOp.input.elems) \notin 1..4 ) =>
        /\ styleOp.err = "InvalidShorthand"
        /\ after = before
        /\ applied = <<>>

\* A 5-tuple is refused by a declaration that stores a side.
C7_Witness ==
    /\ SetDirectional
    /\ Len(styleOp.input.elems) = 5
    /\ styleOp.err = "InvalidShorthand"
    /\ thing_top \in DOMAIN after /\ after[thing_top] = PyInt(2)

\* items() and keys() enumerate the stored values of the validated properties.
EnumerationIsTheStoredValues ==
    /\ keys(cls, after) = DOMAIN after
    /\ items(cls, after) = {<<name, after[name]>> : name \in DOMAIN after}
    /\ \A name \in PROPERTIES[cls] :
           name \in keys(cls, after) <=> name \in DOMAIN after

\* C8 as stated: items() and keys() enumerate exactly the validated properties
\* with a stored value, and every enumerated value differs from the initial
\* value of its property.
C8_EnumeratedValuesAreNonDefault ==
    /\ EnumerationIsTheStoredValues
    /\ \A name \in keys(cls, after) : ~PyEq(after[name], initial(name))

\* C8, amended: items() and keys() enumerate exactly the validated properties
\* with a stored value; one set of a property that stores nothing stores a value
\* only if it differs from the initial value, while a stored value may equal the
\* initial value, when the property was set back to it over another stored one.
C8_EnumerationIsTheStoredValues ==
    /\ EnumerationIsTheStoredValues
    /\ \A name \in PROPERTIES[cls] :
           (SetOf(name) /\ name \notin DOMAIN before /\ name \in DOMAIN after) =>
               ~PyEq(after[name], initial(name))

\* explicit_const is enumerated with its initial value, set back over VALUE2.
C8_Witness ==
    /\ cls = "Simple"
    /\ SetOf(explicit_const)
    /\ explicit_const \in DOMAIN before /\ before[explicit_const] = VALUE2
    /\ <<explicit_const, VALUE1>> \in items(cls, after)
    /\ explicit_const \in keys(cls, after)

\* C10: update() raises the unknown-property error exactly for a name that,
\* with its hyphens replaced by underscores, is not in the registry of all
\* properties; the directional composite is in that registry and not in the
\* registry of the properties settable one by one, so that update() accepts it
\* and item access (get, set, delete) rejects it.
C10_NameAcceptance ==
    /\ thing \in ALL_PROPERTIES["Spaced"] /\ thing \notin PROPERTIES["Spaced"]
    /\ styleOp.op = "update" =>
           /\ styleOp.err = "NameError" =>
                  \E i \in DOMAIN styleOp.styles :
                      /\ normalise(styleOp.styles[i].name) \notin ALL_PROPERTIES[cls]
                      /\ \A j \in 1..(i - 1) :
                             normalise(styleOp.styles[j].name) \in ALL_PROPERTIES[cls]
           /\ (\A i \in DOMAIN styleOp.styles :
                   normalise(styleOp.styles[i].name) \in ALL_PROPERTIES[cls])
                  => styleOp.err # "NameError"
           /\ normalise(styleOp.styles[1].name) \notin ALL_PROPERTIES[cls] =>
                  styleOp.err = "NameError" /\ after = before /\ applied = <<>>
           /\ Len(styleOp.styles) = 1 =>
                  (styleOp.err = "NameError"
                       <=> normalise(styleOp.styles[1].name) \notin ALL_PROPERTIES[cls])
    /\ styleOp.op \in {"getitem", "setitem", "delitem"} =>
           (styleOp.err = "KeyError" <=> normalise(styleOp.name) \notin PROPERTIES[cls])
    /\ ( /\ styleOp.op \in {"getitem", "setitem", "delitem"}
         /\ normalise(styleOp.name) = thing /\ cls = "Spaced" ) =>
           styleOp.err = "KeyError" /\ after = before /\ applied = <<>>

\* update(thing=(1, 2)) went through, on a declaration whose item access
\* by "thing" would be refused.
C10_Witness ==
    /\ cls = "Spaced"
    /\ styleOp.op = "update" /\ styleOp.err = ""
    /\ Len(styleOp.styles) = 1
    /\ styleOp.styles[1].name = thing
    /\ get_attr(cls, after, thing) = <<PyInt(1), PyInt(2), PyInt(1), PyInt(2)>>
    /\ getitem(cls, after, thing).err = "KeyError"
    /\ before # after

RECURSIVE one_by_one(_, _)

\* The changes are set one after the other, in their order.
one_by_one(T, styles) ==
    IF styles = <<>>
    THEN T
    ELSE one_by_one(set_attr(T, normalise(Head(styles).name), Head(styles).value),
                    Tail(styles))

BeforeUpdate == [inst |-> "a", cls |-> cls, attrs |-> before, log |-> <<>>, err |-> ""]

\* The change at position i fails after the changes before it were made: its
\* name is unknown or its value is rejected.
Fails(styles, i) ==
    LET name == normalise(styles[i].name)
    IN  \/ name \notin ALL_PROPERTIES[cls]
        \/ set_attr(one_by_one(BeforeUpdate, SubSeq(styles, 1, i - 1)),
                    name, styles[i].value).err # ""

RECURSIVE first_failure(_, _)

\* The position of the first change from i on that fails; 0 when none does.
first_failure(styles, i) ==
    IF i > Len(styles) THEN 0
    ELSE IF Fails(styles, i) THEN i
    ELSE first_failure(styles, i + 1)

\* C20: update makes its changes one by one in keyword order and keeps what
\* it made when it fails: after an update that raised for an unknown name or
\* a rejected value, every change before the failing one is stored and
\* applied and no change after it is; an update that did not raise made them
\* all.
C20_UpdateKeepsChangesBeforeFailure ==
    styleOp.op = "update" =>
        LET styles == styleOp.styles
            failed == first_failure(styles, 1)
            done == IF failed = 0 THEN Len(styles) ELSE failed - 1
            kept == one_by_one(BeforeUpdate, SubSeq(styles, 1, done))
        IN  /\ (styleOp.err # "") <=> (failed # 0)
            /\ after = kept.attrs
            /\ applied = kept.log

\* update(explicit-const=VALUE2, size="x") raised for the size, and the
\* constant was stored and applied.
C20_Witness ==
    /\ cls = "Simple"
    /\ styleOp.op = "update" /\ styleOp.err = "ValueError"
    /\ Len(styleOp.styles) = 2
    /\ styleOp.styles[2].name = size
    /\ explicit_const \notin DOMAIN before
    /\ explicit_const \in DOMAIN after /\ after[explicit_const] = VALUE2
    /\ applied = << <<"a", explicit_const, VALUE2>> >>

(***************************************************************************)
(* SpecCopy: a declaration and its copy are set and deleted.               *)
(***************************************************************************)
CopyScalars == {PyNone, VALUE1, VALUE2, PyInt(1)}

RECURSIVE Orders(_)

\* The orders in which a set can be iterated.
Orders(S) ==
    IF S = {}
    THEN {<<>>}
    ELSE UNION {{<<x>> \o rest : rest \in Orders(S \ {x})} : x \in S}

InitCopy ==
    /\ InitClasses
    /\ style = ("a" :> [cls |-> "Simple", attrs |-> <<>>])
    /\ applied = <<>>
    /\ styleOp = NoOp
    /\ prev = style
    /\ NoBoxes
    /\ NoSizes
    /\ NoCalls

NextCopy ==
    \/ \E i \in {"a", "b"}, name \in {explicit_const, implicit, size}, v \in CopyScalars :
           SetAttr(i, name, Scalar(v))
    \/ \E i \in {"a", "b"}, name \in {explicit_const, implicit, size} : DelAttr(i, name)
    \/ \E order \in Orders(registered(PROPERTIES, "Simple")) : Copy("a", "b", order)

SpecCopy == InitCopy /\ [][NextCopy]_vars

\* C9: copy() returns a new declaration of the same class whose items() are
\* exactly those of the original at the time of the copy, and a later set or
\* delete on the one leaves the stored values of the other unchanged.
C9_CopyHasTheItemsOfTheOriginal ==
    /\ styleOp.op = "copy" =>
           /\ style["b"].cls = style["a"].cls
           /\ items(style["b"].cls, style["b"].attrs)
                  = items(style["a"].cls, style["a"].attrs)
    /\ (styleOp.op \in {"set", "del"} /\ "b" \in DOMAIN prev) =>
           \A i \in {"a", "b"} : i # styleOp.inst => style[i] = prev[i]

(***************************************************************************)
(* SpecSize: a size is constructed with or without a layout and written.   *)
(***************************************************************************)
\* 1 and 1.0 are equal numbers; at_least(1) and at_least(1.0) are equal too.
SizeValues ==
    {PyNone, PyInt(1), PyFloat(2), at_least(PyInt(1)), at_least(PyFloat(2)),
     at_least(PyInt(2))}

ConstructorValues == {PyNone, PyInt(1)}

InitSize ==
    /\ \E w, h, r \in ConstructorValues, lay \in BOOLEAN :
           /\ intrinsic = new_size(w, h, r, lay)
           /\ sizeOp = SizeOp("new", "", PyNone, PyNone, FALSE, 0,
                              [width |-> w, height |-> h, ratio |-> r])
    /\ dirty = <<>>
    /\ NoBoxes
    /\ NoStyles
    /\ NoCalls

NextSize ==
    \/ \E v \in SizeValues : SetWidth(v)
    \/ \E v \in SizeValues : SetHeight(v)
    \/ \E v \in SizeValues : SetRatio(v)

SpecSize == InitSize /\ [][NextSize]_vars

keyword(field) ==
    CASE field = "width" -> "intrinsic_width"
      [] field = "height" -> "intrinsic_height"
      [] field = "ratio" -> "intrinsic_ratio"

\* Two at_least values differ when their inner values differ, an at_least and
\* a bare value always differ, two bare values differ as Python values do.
Differs(a, b) ==
    CASE a.k = "at_least" /\ b.k = "at_least" -> ~PyEq(value_of(a), value_of(b))
      [] a.k = "at_least" /\ b.k # "at_least" -> TRUE
      [] a.k # "at_least" /\ b.k = "at_least" -> TRUE
      [] OTHER -> ~PyEq(a, b)

\* C11: with a layout attached, a write of width, height or ratio whose value
\* differs from the stored value stores it and calls dirty() exactly once,
\* with the one keyword that names the field and the new value; a write of a
\* value equal to the stored one calls nothing.  Two at_least values with
\* equal inner values are equal, an at_least and a bare number are different.
C11_ChangeIsReportedOnce ==
    (sizeOp.op = "set" /\ intrinsic.layout) =>
        IF Differs(sizeOp.before, sizeOp.value)
        THEN /\ intrinsic[sizeOp.field] = sizeOp.value
             /\ dirty = << <<keyword(sizeOp.field), sizeOp.value>> >>
        ELSE /\ intrinsic[sizeOp.field] = sizeOp.before
             /\ dirty = <<>>

\* at_least(1) written over the bare 1 is reported, and the same height was
\* already stored as at_least(1.0) wrapped in another object.
C11_Witness ==
    /\ intrinsic.layout
    /\ sizeOp.op = "set" /\ sizeOp.field = "width"
    /\ sizeOp.before = PyInt(1) /\ sizeOp.value = at_least(PyInt(1))
    /\ dirty = << <<"intrinsic_width", at_least(PyInt(1))>> >>
    /\ intrinsic.height = at_least(PyFloat(2))

\* C12 as stated: without a layout a write compares nothing and notifies
\* nothing.
C12_NoComparisonWithoutLayout ==
    (sizeOp.op = "set" /\ ~intrinsic.layout) =>
        /\ sizeOp.compared = 0
        /\ dirty = <<>>

\* C12: without a layout a write still compares the value with the stored one
\* once and stores it only when it differs, and no dirty() call is made by
\* any sequence of writes.
C12_NoNotificationWithoutLayout ==
    (sizeOp.op = "set" /\ ~intrinsic.layout) =>
        /\ sizeOp.compared = 1
        /\ intrinsic[sizeOp.field] = IF Differs(sizeOp.before, sizeOp.value)
                                THEN sizeOp.value
                                ELSE sizeOp.before
        /\ dirty = <<>>

\* Without a layout, 1.0 written over 1 leaves the 1 in place.
C12_Witness ==
    /\ ~intrinsic.layout
    /\ sizeOp.op = "set" /\ sizeOp.field = "width"
    /\ sizeOp.before = PyInt(1) /\ sizeOp.value = PyFloat(2)
    /\ intrinsic.width = PyInt(1)
    /\ dirty = <<>>

\* C19: a size constructed with width w, height h and ratio r reports w, h
\* and r until the first write, so a first write of ratio = r is no change and
\* calls no dirty().
C19_ConstructedValuesAreReported ==
    /\ sizeOp.op = "new" =>
           /\ intrinsic.width = sizeOp.args.width
           /\ intrinsic.height = sizeOp.args.height
           /\ intrinsic.ratio = sizeOp.args.ratio
    /\ ( /\ sizeOp.op = "set" /\ sizeOp.first
         /\ sizeOp.field = "ratio"
         /\ sizeOp.value = sizeOp.args.ratio ) => dirty = <<>>

(***************************************************************************)
(* SpecAtLeast: one at_least is compared with one other object.            *)
(***************************************************************************)
\* The numbers and None that are wrapped and compared.
Wrapped == {PyNone} \cup {PyInt(i) : i \in 0..MaxInt} \cup {PyFloat(2), PyFloat(3)}

Operands ==
    Wrapped \cup {at_least(v) : v \in Wrapped} \cup {Holder(v) : v \in Wrapped}

InitAtLeast ==
    /\ \E v \in Wrapped, other \in Operands :
           call = [fn |-> "at_least.__eq__", self |-> at_least(v), other |-> other]
    /\ result = <<>>
    /\ NoBoxes
    /\ NoStyles
    /\ NoSizes

\* self == other
Compare ==
    /\ call # <<>> /\ call.fn = "at_least.__eq__"
    /\ result = <<>>
    /\ result' = <<at_least_eq(call.self, call.other)>>
    /\ UNCHANGED call
    /\ UNCHANGED <<boxVars, styleVars, sizeVars>>

NextAtLeast == Compare

SpecAtLeast == InitAtLeast /\ [][NextAtLeast]_vars

\* C13: at_least(v1) == at_least(v2) exactly when v1 == v2, and
\* at_least(v) == x is false for every x without a value attribute, a number
\* equal to v included.
C13_AtLeastEquality ==
    result # <<>> =>
        /\ call.other.k = "at_least" =>
               (result[1] <=> PyEq(value_of(call.self), value_of(call.other)))
        /\ call.other.k \in {"None", "int", "float"} => result[1] = FALSE

\* at_least(1) was compared with the bare 1.
C13_Witness ==
    /\ result = <<FALSE>>
    /\ call.self = at_least(PyInt(1))
    /\ call.other = PyInt(1)

(***************************************************************************)
(* SpecValidate: one validator is given one value.                         *)
(***************************************************************************)
Word == PyStr(<<"a">>)

ConstantSets == {{}, {Word}, {PyNone}, {NoneLiteral}, {Word, PyInt(1)}, {NoneLiteral, PyNone}}

Validators ==
    {Choices(cs, d, st, i, nu, co) :
        cs \in ConstantSets, d \in BOOLEAN, st \in BOOLEAN, i \in BOOLEAN,
        nu \in BOOLEAN, co \in BOOLEAN}

Values ==
    {PyNone, PyInt(1), PyFloat(3), PyColor(<<"r", "e", "d">>), NoneLiteral, Word,
     PyStr(<<" ", "a", " ">>), PyStr(<<"1">>), PyStr(<<"1", ".", "5">>),
     PyStr(<<"r", "e", "d">>), PyStr(<<"x">>)}

InitValidate ==
    /\ \E choices \in Validators, value \in Values :
           call = [fn |-> "validate", choices |-> choices, value |-> value]
    /\ result = <<>>
    /\ NoBoxes
    /\ NoStyles
    /\ NoSizes

\* choices.validate(value)
Validate ==
    /\ call # <<>> /\ call.fn = "validate"
    /\ result = <<>>
    /\ result' = <<validate(call.choices, call.value)>>
    /\ UNCHANGED call
    /\ UNCHANGED <<boxVars, styleVars, sizeVars>>

NextValidate == Validate

SpecValidate == InitValidate /\ [][NextValidate]_vars

\* What each branch answers on its own, in the order default, string,
\* integer, number, colour, constants; the constants see None for "none".
Branches(choices, value) ==
    << IF choices.default /\ value = PyNone THEN Ok(PyNone) ELSE Fail,
       IF choices.string /\ value.k = "str" THEN Ok(PyStr(strip(value.s))) ELSE Fail,
       IF choices.integer THEN int(value) ELSE Fail,
       IF choices.number THEN float(value) ELSE Fail,
       IF choices.color THEN color(value) ELSE Fail,
       LET v == IF value = NoneLiteral THEN PyNone ELSE value
           matches == {const \in choices.constants : PyEq(v, const)}
       IN  IF matches # {} THEN Ok(CHOOSE const \in matches : TRUE) ELSE Fail >>

FirstAccepting(answers) ==
    IF \E i \in DOMAIN answers : answers[i].ok
    THEN answers[CHOOSE i \in DOMAIN answers :
                     answers[i].ok /\ \A j \in 1..(i - 1) : ~answers[j].ok]
    ELSE Fail

\* C14: validate returns what the first accepting branch returns, in the
\* order default, string, integer, number, colour, "none", constants, and
\* raises when no branch accepts.  With default enabled None is returned for
\* None whatever else is enabled, and with integer enabled a string constant
\* that int() rejects is accepted.
C14_FirstAcceptingBranch ==
    result # <<>> =>
        /\ result[1] = FirstAccepting(Branches(call.choices, call.value))
        /\ (call.choices.default /\ call.value = PyNone) => result[1] = Ok(PyNone)
        /\ ( /\ call.choices.integer
             /\ call.value \in call.choices.constants
             /\ call.value.k = "str" /\ call.value # NoneLiteral
             /\ ~int(call.value).ok ) =>
               /\ result[1].ok
               /\ PyEq(result[1].value, call.value)

\* With strings and integers both enabled "1" came back as the string, and
\* not as the integer.
C14_Witness ==
    /\ result = <<Ok(PyStr(<<"1">>))>>
    /\ call.choices.string /\ call.choices.integer /\ call.choices.default
    /\ call.value = PyStr(<<"1">>)

\* No branch before the literal "none" accepts the value.
ReachesNoneLiteral ==
    /\ call.value = NoneLiteral
    /\ ~call.choices.string

\* C15 as stated: "none" means the default exactly when defaulting is
\* enabled; without it "none" is accepted only as a constant "none".
C15_NoneMeansDefault ==
    (result # <<>> /\ ReachesNoneLiteral) =>
        IF call.choices.default
        THEN result[1] = Ok(PyNone)
        ELSE result[1] = IF NoneLiteral \in call.choices.constants
                         THEN Ok(NoneLiteral)
                         ELSE Fail

\* C15: "none" is replaced by None whether or not defaulting is enabled, and
\* is then accepted exactly when None is one of the constants; a constant
\* "none" does not accept it.
C15_NoneMeansTheNoneConstant ==
    (result # <<>> /\ ReachesNoneLiteral) =>
        result[1] = IF PyNone \in call.choices.constants THEN Ok(PyNone) ELSE Fail

\* With defaulting enabled and "none" the only constant, "none" was rejected.
C15_Witness ==
    /\ result = <<Fail>>
    /\ call.value = NoneLiteral
    /\ call.choices.default /\ ~call.choices.string
    /\ call.choices.constants = {NoneLiteral}

(***************************************************************************)
(* SpecRegister: validated properties are registered on two classes, with  *)
(* initial values their validators accept or reject.                       *)
(***************************************************************************)
RegisterClasses == {"Simple", "Spaced"}

RegisterNames == {explicit_const, size}

RegisterChoices ==
    {Choices({VALUE1, VALUE2}, FALSE, FALSE, FALSE, FALSE, FALSE),
     Choices({VALUE1}, TRUE, FALSE, FALSE, FALSE, FALSE),
     IntegerChoices}

\* PyNone is the initial value of a registration that gives none.
RegisterInitials == {PyNone, VALUE1, PyInt(0)}

Registries == [P |-> PROPERTIES, A |-> ALL_PROPERTIES, acc |-> accessors, err |-> ""]

InitRegister ==
    /\ PROPERTIES = NoClasses.P
    /\ ALL_PROPERTIES = NoClasses.A
    /\ accessors = NoClasses.acc
    /\ style = <<>>
    /\ applied = <<>>
    /\ styleOp = NoOp
    /\ prev = <<>>
    /\ NoBoxes
    /\ NoSizes
    /\ NoCalls

\* cls.validated_property(name, choices, initial)
RegisterValidated(c, name, choices, given) ==
    LET R == validated_property(Registries, c, name, choices, given)
    IN  /\ PROPERTIES' = R.P
        /\ ALL_PROPERTIES' = R.A
        /\ accessors' = R.acc
        /\ call' = [fn |-> "validated_property", cls |-> c, name |-> name,
                    choices |-> choices, initial |-> given]
        /\ result' = <<[err |-> R.err, before |-> Registries]>>
        /\ UNCHANGED <<style, applied, styleOp, prev>>
        /\ UNCHANGED <<boxVars, sizeVars>>

NextRegister ==
    \E c \in RegisterClasses, name \in RegisterNames,
       choices \in RegisterChoices, given \in RegisterInitials :
        RegisterValidated(c, name, choices, given)

SpecRegister == InitRegister /\ [][NextRegister]_vars

\* C16: a registration whose initial value (None when none is given) its
\* validator rejects fails with the invalid-initial-value error and leaves
\* both registries and the accessors of the class as they were; a
\* registration that succeeds has the name in both registries.
C16_RejectedInitialRegistersNothing ==
    result # <<>> =>
        IF validate(call.choices, call.initial).ok
        THEN /\ result[1].err = ""
             /\ call.name \in registered(PROPERTIES, call.cls)
             /\ call.name \in registered(ALL_PROPERTIES, call.cls)
             /\ call.name \in DOMAIN accessors[call.cls]
        ELSE /\ result[1].err = "InvalidInitialValue"
             /\ PROPERTIES = result[1].before.P
             /\ ALL_PROPERTIES = result[1].before.A
             /\ accessors = result[1].before.acc

\* An integer property registered without an initial value failed on a class
\* that has another property, and its name is in no registry.
C16_Witness ==
    /\ result # <<>> /\ result[1].err = "InvalidInitialValue"
    /\ call.cls = "Simple" /\ call.name = size
    /\ call.choices = IntegerChoices /\ call.initial = PyNone
    /\ registered(PROPERTIES, "Simple") = {explicit_const}
    /\ registered(ALL_PROPERTIES, "Simple") = {explicit_const}
    /\ DOMAIN accessors["Simple"] = {explicit_const}

(***************************************************************************)
(* SpecOrder: a tree of four boxes, built before any write, in which the   *)
(* root has two children and the first of them a child of its own.         *)
(***************************************************************************)
OrderNodes == {1, 2, 3, 4}

OrderChildren ==
    (1 :> <<3, 2>>) @@ (2 :> <<>>) @@ (3 :> <<4>>) @@ (4 :> <<>>)

InitOrder ==
    /\ children = OrderChildren
    /\ layout = [n \in OrderNodes |-> FreshBox]
    /\ writes = <<>>
    /\ boxOp = Op("init", 0, 0, FALSE)
    /\ late = {}
    /\ NoStyles
    /\ NoSizes
    /\ NoCalls

NextOrder ==
    \/ \E n \in OrderNodes, v \in ScenarioTops : SetContentTop(n, v)
    \/ \E n \in OrderNodes, v \in ScenarioLefts : SetContentLeft(n, v)
    \/ \E v \in ScenarioOrigins : SetOriginTop(Root, v)
    \/ \E v \in ScenarioOrigins : SetOriginLeft(Root, v)

SpecOrder == InitOrder /\ [][NextOrder]_vars

RECURSIVE preorder(_), preorder_from(_, _)

\* The boxes of the subtree of n in depth-first pre-order: n, then the
\* subtree of each child that has a box, in child-list order.
preorder(n) == <<n>> \o preorder_from(n, 1)

preorder_from(n, i) ==
    IF i > Len(children[n])
    THEN <<>>
    ELSE (IF children[n][i] \in Boxed THEN preorder(children[n][i]) ELSE <<>>)
         \o preorder_from(n, i + 1)

written == [i \in DOMAIN writes |-> writes[i][1]]

axis ==
    CASE boxOp.op \in {"content_top", "origin_top"} -> "top"
      [] boxOp.op \in {"content_left", "origin_left"} -> "left"
      [] OTHER -> ""

\* C17: a write that moves a box's origin or content offset writes the
\* origins of the boxes below in depth-first pre-order: the box's own origin
\* first when it is the origin that is written, then each child followed by
\* its whole subtree before the next sibling, siblings in child-list order.
C17_PropagationIsPreOrder ==
    axis # "" =>
        /\ \A i \in DOMAIN writes : writes[i][2] = axis
        /\ written = IF ~boxOp.changed THEN <<>>
                     ELSE IF boxOp.op \in {"origin_top", "origin_left"}
                     THEN preorder(boxOp.node)
                     ELSE Tail(preorder(boxOp.node))

\* The root's origin moved: the root was written first, then its first child
\* 3, the grandchild 4 below it, and the second child 2 last.
C17_Witness ==
    /\ boxOp.op = "origin_top" /\ boxOp.node = Root /\ boxOp.changed
    /\ written = <<1, 3, 4, 2>>
    /\ layout[4].origin_top = 120

====
